---- MODULE Spec2Model ----
(***************************************************************************)
(* Project Aether: the asynchronous job engine (Celery tasks of            *)
(* app/tasks/crawler_tasks.py, the audit endpoints of                      *)
(* app/api/v1/endpoints/audits.py) and the Redis cache gateway of          *)
(* app/services/external_api_service.py.                                   *)
(*                                                                         *)
(* Spec      : submissions, one worker executing task bodies with          *)
(*             automatic retries, the result backend, and a status query   *)
(*             that may interleave with the worker's writes.               *)
(* SpecCache : the cache gateway (get / set / cached lookups) over a       *)
(*             backing store that may be down or hold undecodable data.    *)
(* SpecKey   : calls of _generate_cache_key.                               *)
(* SpecSubmit: site audit submissions and their worker, without status     *)
(*             queries, with room for one more job than Spec.              *)
(***************************************************************************)
EXTENDS Integers, Sequences, FiniteSets, TLC

VARIABLES
    \* ---- job engine ----
    nextId,        \* number of task ids allocated so far by .delay()
    args,          \* args[id]: the task name and max_pages of a submitted job
    broker,        \* task messages waiting for a worker: [id, retries]
    backend,       \* backend[id]: the record of the result backend (Redis)
    wpc,           \* the worker's position in the task body
    wreq,          \* the request the worker executes: [id, retries]
    page_num,      \* run_site_crawl: loop variable
    crawled_pages, \* run_site_crawl: pages crawled so far in this attempt
    total_pages,   \* run_site_crawl: min(max_pages, 50)
    exc,           \* the exception in flight in the worker
    executions,    \* executions[id]: how many times the body of id was started
    lastProgress,  \* lastProgress[id]: progress of the latest PROGRESS write
    lastExc,       \* lastExc[id]: what the latest attempt of id raised, if it did
    outcome,       \* outcome[id]: "none", "success" or "failure" (terminal)
    expired,       \* ids whose backend record was reclaimed (result_expires)
    \* ---- get_audit_status ----
    qpc,           \* position of the status query
    qid,           \* task_id of the query
    qcache,        \* AsyncResult._cache of the query's task_result
    qbegin,        \* what the job was when the query began (see JobPhase)
    resp,          \* the response under construction / returned
    \* ---- cache gateway ----
    redis_client,  \* "client" or "None": the module-level client
    storeUp,       \* whether the Redis server answers
    cache,         \* cache[k]: the entry stored under cache key k
    written,       \* written[k]: the gateway's latest write under k (see NotWritten)
    now,           \* the clock, in seconds
    cpc,           \* position of the cached lookup in progress
    ckey,          \* the lookup's cache key
    cres,          \* outcome of the last gateway call / lookup
    \* ---- _generate_cache_key ----
    kcall,         \* the latest call: [prefix, kwargs] as the caller supplied them
    kret,          \* the key that call returned
    \* ---- start_site_audit ----
    quota,         \* how many jobs the run admits
    spc,           \* position of the submission: "idle" or "done"
    sreq,          \* the request of the submission being answered
    sresp,         \* its response
    issued,        \* the task ids .delay() has returned, oldest first
    \* ---- clear_cache / is_service_available ----
    clpc,          \* position of clear_cache: "idle" or "listed"
    cpat,          \* its pattern
    ckeys,         \* keys = redis_client.keys(pattern)
    cret,          \* the latest return of clear_cache / is_service_available
    \* ---- two workers in the same cached lookup ----
    lpc,           \* lpc[w]: position of worker w: "idle", "fetch" or "done"
    lkey,          \* lkey[w]: its cache key
    lout,          \* lout[w]: what its lookup returned or raised
    \* ---- invoke_gemini_model ----
    vertex_model,  \* "model" or "None": the module-level GenerativeModel
    aicall         \* the latest call: its arguments, what the model did, the outcome

jobVars   == << nextId, args, broker, backend, wpc, wreq, page_num, crawled_pages,
                total_pages, exc, executions, lastProgress, lastExc, outcome, expired >>
queryVars == << qpc, qid, qcache, qbegin, resp >>
cacheVars == << redis_client, storeUp, cache, written, now, cpc, ckey, cres >>
keyVars   == << kcall, kret >>
submitVars == << quota, spc, sreq, sresp, issued >>
clearVars == << clpc, cpat, ckeys, cret >>
raceVars  == << lpc, lkey, lout >>
aiVars    == << vertex_model, aicall >>
moreVars  == << clearVars, raceVars, aiVars >>
vars      == << jobVars, queryVars, cacheVars, keyVars, submitVars, moreVars >>

(***************************************************************************)
(* Bounds of the model.                                                    *)
(***************************************************************************)
MaxJobs == 1
MaxTime == 2     \* the clock runs from 0 to MaxTime seconds
MaxKwargs == 2   \* keyword arguments of a call of _generate_cache_key

(***************************************************************************)
(* Program constants.                                                      *)
(***************************************************************************)
max_retries      == 3      \* retry_kwargs={'max_retries': 3, ...}
SimulatedPages   == 50     \* total_pages = min(max_pages, 50)
ProgressEvery    == 10     \* if page_num % 10 == 0
DefaultTtl       == 86400  \* ttl of every cached lookup

TaskIds      == 1 .. MaxJobs
JobIds       == 1 .. MaxJobs + 1       \* the ids of SpecSubmit: one job more
UnknownId    == 0                      \* an id no submission ever returned
QueryIds     == TaskIds \cup {UnknownId}
TaskNames    == {"run_site_crawl", "analyze_site_performance", "generate_content_brief"}
MaxPagesArgs == {-1, 0, 10, 60}              \* max_pages values submitted
\* Messages of the exceptions a task body can raise.
Errors       == {"timeout", "invalid argument"}

\* the bug of taking the larger of max_pages and the number of simulated pages
Max(a, b) == IF a <= b THEN b ELSE a

\* min(max_pages, 50)
Min(a, b) == IF a <= b THEN a ELSE b

(***************************************************************************)
(* Records of the result backend.  A record is [status, meta]; meta is     *)
(* what was stored as the task's result: a progress envelope, the return   *)
(* value, the dictionary written by the except block of run_site_crawl,    *)
(* or an exception serialised by Celery.  "keys" are the counters the      *)
(* envelope carries.                                                       *)
(***************************************************************************)
Null == "<null>"

NullMeta ==
    [kind |-> "none", phase |-> Null, progress |-> 0, total |-> 0, crawled |-> 0,
     keys |-> {}, msg |-> Null]

Envelope(phase, progress, total, crawled, keys) ==
    [kind |-> "envelope", phase |-> phase, progress |-> progress, total |-> total,
     crawled |-> crawled, keys |-> keys, msg |-> Null]

\* crawl_results: crawl_summary.total_pages_crawled / total_pages_discovered
CrawlResults(crawled, total) ==
    [kind |-> "result", phase |-> Null, progress |-> 0, total |-> total,
     crawled |-> crawled, keys |-> {"total", "crawled"}, msg |-> Null]

\* the return value of the two tasks without counters
PlainResults ==
    [kind |-> "result", phase |-> Null, progress |-> 0, total |-> 0,
     crawled |-> 0, keys |-> {}, msg |-> Null]

\* meta={'error': str(e), 'project_id': ..., 'root_url': ...}
ErrorDict(e) ==
    [kind |-> "errdict", phase |-> Null, progress |-> 0, total |-> 0, crawled |-> 0,
     keys |-> {}, msg |-> e]

\* an exception as the backend serialises it (exc_type, exc_message, exc_module)
StoredException(e) ==
    [kind |-> "exc", phase |-> Null, progress |-> 0, total |-> 0, crawled |-> 0,
     keys |-> {}, msg |-> e]

NoRecord == [status |-> "NONE", meta |-> NullMeta]

READY_STATES     == {"SUCCESS", "FAILURE", "REVOKED"}
EXCEPTION_STATES == {"RETRY", "FAILURE", "REVOKED"}

NoRequest == [id |-> UnknownId, retries |-> 0]
NoArgs    == [task |-> Null, project_id |-> 0, root_url |-> Null, max_depth |-> 0,
              max_pages |-> 0]
NoCache   == [set |-> FALSE, rec |-> NoRecord]
NoResp    == [code |-> 0, status |-> Null, result |-> NullMeta, progress |-> NullMeta,
              error |-> Null, message |-> Null]

(***************************************************************************)
(* Initial states.                                                         *)
(***************************************************************************)
InitJobs ==
    /\ nextId = 0
    /\ args = [i \in JobIds |-> NoArgs]
    /\ broker = {}
    /\ backend = [i \in JobIds \cup {UnknownId} |-> NoRecord]
    /\ wpc = "idle"
    /\ wreq = NoRequest
    /\ page_num = 0
    /\ crawled_pages = 0
    /\ total_pages = 0
    /\ exc = Null
    /\ executions = [i \in JobIds |-> 0]
    /\ lastProgress = [i \in JobIds |-> 0]
    /\ lastExc = [i \in JobIds |-> Null]
    /\ outcome = [i \in JobIds |-> "none"]
    /\ expired = {}

InitQuery ==
    /\ qpc = "idle"
    /\ qid = UnknownId
    /\ qcache = NoCache
    /\ qbegin = "unknown"
    /\ resp = NoResp

\* A response is looked at in the state that returns it (qpc = "done"); the
\* step that discards it comes before the rest of the system moves on.
SubmissionSent == spc # "done"
ResponseSent   == qpc # "done" /\ SubmissionSent

(***************************************************************************)
(* Submission: .delay() allocates a fresh task id (a uuid) and puts the    *)
(* task message on the broker.  Nothing is written to the result backend.  *)
(***************************************************************************)
\* the bug of handing out again the id of a record that was reclaimed
reused_task_id == IF expired # {} THEN CHOOSE i \in expired : TRUE ELSE nextId + 1

\* uuid(): the id of the new task message, one that was never produced before
uuid == nextId + 1

Delay(task, kwargs) ==
    /\ nextId < quota
    /\ nextId' = nextId + 1
    /\ args' = [args EXCEPT ![uuid] =
                  [task |-> task, project_id |-> kwargs.project_id,
                   root_url |-> kwargs.root_url, max_depth |-> kwargs.max_depth,
                   max_pages |-> kwargs.max_pages]]
    /\ broker' = broker \cup {[id |-> uuid, retries |-> 0]}
    /\ issued' = Append(issued, uuid)
    /\ UNCHANGED << backend, wpc, wreq, page_num, crawled_pages, total_pages, exc,
                    executions, lastProgress, lastExc, outcome, expired >>

(***************************************************************************)
(* POST /audits/start.  A request carries a bearer token and a JSON body;  *)
(* the body is a function from the field names it has to their values.     *)
(***************************************************************************)
Tokens       == {"valid", "invalid", "none"}
ValidUrl     == "https://example.com"
MalformedUrl == "not-a-valid-url"
EmptyBody    == [x \in {} |-> 0]
FullBody(u, d, mp) == ("root_url" :> u) @@ ("max_depth" :> d) @@ ("max_pages" :> mp)
\* the bodies of the model: every field given, max_depth left out, both
\* max_depth and max_pages left out, a root_url that is no URL, no root_url
Bodies ==
    {FullBody(ValidUrl, 5, mp) : mp \in MaxPagesArgs}
        \cup {("root_url" :> ValidUrl),
              ("root_url" :> ValidUrl) @@ ("max_pages" :> 10),
              FullBody(MalformedUrl, 3, 100),
              ("max_depth" :> 3) @@ ("max_pages" :> 100)}

\* root_url: HttpUrl: an absolute http or https URL
HttpUrlValid(u) == u = ValidUrl

\* the bug of declaring root_url: str
StartAuditPayloadAnyText(body) == "root_url" \in DOMAIN body

\* StartAuditPayload: root_url is required and must be an HttpUrl
StartAuditPayload(body) ==
    /\ "root_url" \in DOMAIN body
    /\ HttpUrlValid(body["root_url"])

\* the bug of defaulting max_pages to the number of simulated pages
FieldDefaultSimulated(name) ==
    CASE name = "max_depth" -> 3
      [] name = "max_pages" -> SimulatedPages

\* max_depth: int = 3 / max_pages: int = 100
FieldDefault(name) ==
    CASE name = "max_depth" -> 3
      [] name = "max_pages" -> 100

\* payload.max_depth, payload.max_pages
Field(body, name) == IF name \in DOMAIN body THEN body[name] ELSE FieldDefault(name)

\* root_url_str = str(payload.root_url): an HttpUrl is a str, the text that
\* was validated
root_url_str(body) == body["root_url"]

NoSubmission == [token |-> "none", body |-> EmptyBody, delay |-> "not called"]
NoSubmitResp ==
    [code |-> 0, detail |-> Null, task_id |-> UnknownId, status |-> Null,
     message |-> Null, root_url |-> Null]

HTTPException(status_code, detail) ==
    [NoSubmitResp EXCEPT !.code = status_code, !.detail = detail]

AuditResponse(task_id, status, message, root_url) ==
    [code |-> 200, detail |-> Null, task_id |-> task_id, status |-> status,
     message |-> message, root_url |-> root_url]

\* oauth2_scheme / get_current_user: 401 without a token or with a bad one
credentials_exception(token) ==
    HTTPException(401, IF token = "none" THEN "Not authenticated"
                       ELSE "Could not validate credentials")

\* the bug of a handler without its except clause: the server's own 500
start_site_audit_unhandled == HTTPException(500, "Internal Server Error")

\* except Exception as e: raise HTTPException(500, "Failed to start site audit task")
start_site_audit_except == HTTPException(500, "Failed to start site audit task")

\* the request is answered before the handler's body runs
Rejected(token, body, response) ==
    /\ sreq' = [token |-> token, body |-> body, delay |-> "not called"]
    /\ sresp' = response
    /\ UNCHANGED << jobVars, issued >>

\* POST /audits/start: authentication, validation of the body, then
\* run_site_crawl.delay(project_id=1, root_url, max_depth, max_pages), which
\* raises when the broker cannot be reached.  The run admits quota jobs;
\* requests stop with them.
start_site_audit ==
    /\ spc = "idle"
    /\ qpc # "done"
    /\ nextId < quota
    /\ \E token \in Tokens, body \in Bodies :
        IF token # "valid"
        THEN Rejected(token, body, credentials_exception(token))
        ELSE IF ~StartAuditPayload(body)
        THEN Rejected(token, body, HTTPException(422, "validation error"))
        ELSE \E delay_raises \in BOOLEAN :
            IF delay_raises
            THEN /\ sreq' = [token |-> token, body |-> body, delay |-> "raised"]
                 /\ sresp' = start_site_audit_except
                 /\ UNCHANGED << jobVars, issued >>
            ELSE /\ sreq' = [token |-> token, body |-> body, delay |-> "returned"]
                 /\ Delay("run_site_crawl",
                          [project_id |-> 1, root_url |-> root_url_str(body),
                           max_depth |-> Field(body, "max_depth"),
                           max_pages |-> Field(body, "max_pages")])
                 /\ sresp' = AuditResponse(uuid, "pending",
                                           "Site audit task started successfully",
                                           root_url_str(body))
    /\ spc' = "done"
    /\ UNCHANGED quota
    /\ UNCHANGED << queryVars, cacheVars, keyVars, moreVars >>

\* the response has been sent; the handler's locals are gone
start_site_audit_end ==
    /\ spc = "done"
    /\ spc' = "idle"
    /\ sreq' = NoSubmission
    /\ sresp' = NoSubmitResp
    /\ UNCHANGED << quota, issued >>
    /\ UNCHANGED << jobVars, queryVars, cacheVars, keyVars, moreVars >>

\* the two other registered tasks, sent by a client of the Celery app
delay_other_task ==
    /\ \E t \in TaskNames \ {"run_site_crawl"} :
        Delay(t, [project_id |-> 1, root_url |-> Null, max_depth |-> 0, max_pages |-> 0])
    /\ ResponseSent
    /\ UNCHANGED << quota, spc, sreq, sresp >>
    /\ UNCHANGED << queryVars, cacheVars, keyVars, moreVars >>

(***************************************************************************)
(* The worker.                                                             *)
(***************************************************************************)
Running(task) == wreq.id \in JobIds /\ args[wreq.id].task = task

\* self.update_state(state=..., meta=...): one write of the whole record
update_state(state, meta) ==
    backend' = [backend EXCEPT ![wreq.id] = [status |-> state, meta |-> meta]]

\* a PROGRESS envelope is published
Publish(envelope) ==
    /\ update_state("PROGRESS", envelope)
    /\ lastProgress' = [lastProgress EXCEPT ![wreq.id] = envelope.progress]

\* a worker takes a task message and starts the body
WorkerPickup ==
    /\ wpc = "idle"
    /\ \E m \in broker :
        /\ broker' = broker \ {m}
        /\ wreq' = m
        /\ executions' = [executions EXCEPT ![m.id] = @ + 1]
        /\ lastExc' = [lastExc EXCEPT ![m.id] = Null]
    /\ wpc' = "start"
    /\ page_num' = 0
    /\ crawled_pages' = 0
    /\ total_pages' = 0
    /\ UNCHANGED << nextId, args, backend, exc, lastProgress, outcome, expired >>
    /\ ResponseSent
    /\ UNCHANGED << queryVars, cacheVars, keyVars, submitVars, moreVars >>

\* the bug of scaling the crawl to the whole range 0..100
CrawlProgressFullRange(p, t) == (100 * p) \div t

\* progress = int((page_num / total_pages) * 70) + 20
CrawlProgress(p, t) == (70 * p) \div t + 20

run_site_crawl_initialization ==
    /\ wpc = "start" /\ Running("run_site_crawl")
    /\ Publish(Envelope("initialization", 0, args[wreq.id].max_pages, 0, {"total"}))
    /\ wpc' = "discovery"
    /\ UNCHANGED << nextId, args, broker, wreq, page_num, crawled_pages, total_pages,
                    exc, executions, lastExc, outcome, expired >>
    /\ ResponseSent
    /\ UNCHANGED << queryVars, cacheVars, keyVars, submitVars, moreVars >>

run_site_crawl_discovery ==
    /\ wpc = "discovery"
    /\ Publish(Envelope("discovery", 5, args[wreq.id].max_pages, 0, {"total"}))
    /\ crawled_pages' = 0
    /\ total_pages' = Min(args[wreq.id].max_pages, SimulatedPages)
    /\ page_num' = 0
    /\ wpc' = "crawling"
    /\ UNCHANGED << nextId, args, broker, wreq, exc, executions, lastExc, outcome,
                    expired >>
    /\ ResponseSent
    /\ UNCHANGED << queryVars, cacheVars, keyVars, submitVars, moreVars >>

\* one iteration of: for page_num in range(1, total_pages + 1)
run_site_crawl_page ==
    /\ wpc = "crawling"
    /\ page_num < total_pages
    /\ page_num' = page_num + 1
    /\ crawled_pages' = crawled_pages + 1
    /\ IF page_num' % ProgressEvery = 0
       THEN Publish(Envelope("crawling", CrawlProgress(page_num', total_pages),
                             total_pages, crawled_pages', {"total", "crawled"}))
       ELSE UNCHANGED << backend, lastProgress >>
    /\ UNCHANGED << nextId, args, broker, wpc, wreq, total_pages, exc, executions,
                    lastExc, outcome, expired >>
    /\ ResponseSent
    /\ UNCHANGED << queryVars, cacheVars, keyVars, submitVars, moreVars >>

run_site_crawl_analysis ==
    /\ wpc = "crawling"
    /\ ~(page_num < total_pages)
    /\ Publish(Envelope("analysis", 90, total_pages, crawled_pages, {"total", "crawled"}))
    /\ wpc' = "return"
    /\ UNCHANGED << nextId, args, broker, wreq, page_num, crawled_pages, total_pages,
                    exc, executions, lastExc, outcome, expired >>
    /\ ResponseSent
    /\ UNCHANGED << queryVars, cacheVars, keyVars, submitVars, moreVars >>

analyze_site_performance_initialization ==
    /\ wpc = "start" /\ Running("analyze_site_performance")
    /\ Publish(Envelope("initialization", 10, 0, 0, {}))
    /\ wpc' = "return"
    /\ UNCHANGED << nextId, args, broker, wreq, page_num, crawled_pages, total_pages,
                    exc, executions, lastExc, outcome, expired >>
    /\ ResponseSent
    /\ UNCHANGED << queryVars, cacheVars, keyVars, submitVars, moreVars >>

generate_content_brief_serp ==
    /\ wpc = "start" /\ Running("generate_content_brief")
    /\ Publish(Envelope("serp_analysis", 25, 0, 0, {}))
    /\ wpc' = "competitor"
    /\ UNCHANGED << nextId, args, broker, wreq, page_num, crawled_pages, total_pages,
                    exc, executions, lastExc, outcome, expired >>
    /\ ResponseSent
    /\ UNCHANGED << queryVars, cacheVars, keyVars, submitVars, moreVars >>

generate_content_brief_competitor ==
    /\ wpc = "competitor"
    /\ Publish(Envelope("competitor_analysis", 60, 0, 0, {}))
    /\ wpc' = "ai"
    /\ UNCHANGED << nextId, args, broker, wreq, page_num, crawled_pages, total_pages,
                    exc, executions, lastExc, outcome, expired >>
    /\ ResponseSent
    /\ UNCHANGED << queryVars, cacheVars, keyVars, submitVars, moreVars >>

generate_content_brief_ai ==
    /\ wpc = "ai"
    /\ Publish(Envelope("ai_generation", 85, 0, 0, {}))
    /\ wpc' = "return"
    /\ UNCHANGED << nextId, args, broker, wreq, page_num, crawled_pages, total_pages,
                    exc, executions, lastExc, outcome, expired >>
    /\ ResponseSent
    /\ UNCHANGED << queryVars, cacheVars, keyVars, submitVars, moreVars >>

ReturnValue ==
    IF args[wreq.id].task = "run_site_crawl"
    THEN CrawlResults(crawled_pages, total_pages)
    ELSE PlainResults

\* the body returns; the worker stores the return value with state SUCCESS
task_return ==
    /\ wpc = "return"
    /\ update_state("SUCCESS", ReturnValue)
    /\ outcome' = [outcome EXCEPT ![wreq.id] = "success"]
    /\ wpc' = "idle"
    /\ wreq' = NoRequest
    /\ UNCHANGED << nextId, args, broker, page_num, crawled_pages, total_pages, exc,
                    executions, lastProgress, lastExc, expired >>
    /\ ResponseSent
    /\ UNCHANGED << queryVars, cacheVars, keyVars, submitVars, moreVars >>

InTryBlock == wpc \in {"start", "discovery", "crawling", "competitor", "ai", "return"}

\* a statement of the try block raises
body_raises ==
    /\ InTryBlock
    /\ \E e \in Errors :
        /\ exc' = e
        /\ lastExc' = [lastExc EXCEPT ![wreq.id] = e]
    /\ wpc' = "except"
    /\ UNCHANGED << nextId, args, broker, backend, wreq, page_num, crawled_pages,
                    total_pages, executions, lastProgress, outcome, expired >>
    /\ ResponseSent
    /\ UNCHANGED << queryVars, cacheVars, keyVars, submitVars, moreVars >>

\* run_site_crawl: except Exception as e: update_state(state='FAILURE', ...); raise
run_site_crawl_except ==
    /\ wpc = "except" /\ Running("run_site_crawl")
    /\ update_state("FAILURE", ErrorDict(exc))
    /\ wpc' = "autoretry"
    /\ UNCHANGED << nextId, args, broker, wreq, page_num, crawled_pages, total_pages,
                    exc, executions, lastProgress, lastExc, outcome, expired >>
    /\ ResponseSent
    /\ UNCHANGED << queryVars, cacheVars, keyVars, submitVars, moreVars >>

\* the two other tasks: except Exception as e: logger.error(...); raise
task_except ==
    /\ wpc = "except" /\ ~Running("run_site_crawl")
    /\ wpc' = "autoretry"
    /\ UNCHANGED << nextId, args, broker, backend, wreq, page_num, crawled_pages,
                    total_pages, exc, executions, lastProgress, lastExc, outcome,
                    expired >>
    /\ ResponseSent
    /\ UNCHANGED << queryVars, cacheVars, keyVars, submitVars, moreVars >>

\* the bug of counting the first execution among the retries
RetriesExhaustedEarly(retries) == retries + 1 >= max_retries

\* Task.retry: retries = request.retries + 1; give up when retries > max_retries
RetriesExhausted(retries) == retries + 1 > max_retries

\* autoretry_for=(Exception,): every exception of the body is retried.
autoretry_for(e) == e \in Errors

\* the exception is retried: a new message is sent, the record becomes RETRY
autoretry_retry ==
    /\ wpc = "autoretry"
    /\ autoretry_for(exc)
    /\ ~RetriesExhausted(wreq.retries)
    /\ broker' = broker \cup {[id |-> wreq.id, retries |-> wreq.retries + 1]}
    /\ update_state("RETRY", StoredException(exc))
    /\ wpc' = "idle"
    /\ wreq' = NoRequest
    /\ exc' = Null
    /\ UNCHANGED << nextId, args, page_num, crawled_pages, total_pages, executions,
                    lastProgress, lastExc, outcome, expired >>
    /\ ResponseSent
    /\ UNCHANGED << queryVars, cacheVars, keyVars, submitVars, moreVars >>

\* the exception is final: the worker stores it with state FAILURE
autoretry_give_up ==
    /\ wpc = "autoretry"
    /\ ~autoretry_for(exc) \/ RetriesExhausted(wreq.retries)
    /\ update_state("FAILURE", StoredException(exc))
    /\ outcome' = [outcome EXCEPT ![wreq.id] = "failure"]
    /\ wpc' = "idle"
    /\ wreq' = NoRequest
    /\ exc' = Null
    /\ UNCHANGED << nextId, args, broker, page_num, crawled_pages, total_pages,
                    executions, lastProgress, lastExc, expired >>
    /\ ResponseSent
    /\ UNCHANGED << queryVars, cacheVars, keyVars, submitVars, moreVars >>

\* result_expires: the record of a finished job is reclaimed
expire_result ==
    /\ \E i \in JobIds :
        /\ outcome[i] # "none"
        /\ backend[i] # NoRecord
        /\ backend' = [backend EXCEPT ![i] = NoRecord]
        /\ expired' = expired \cup {i}
    /\ UNCHANGED << nextId, args, broker, wpc, wreq, page_num, crawled_pages,
                    total_pages, exc, executions, lastProgress, lastExc, outcome >>
    /\ ResponseSent
    /\ UNCHANGED << queryVars, cacheVars, keyVars, submitVars, moreVars >>

(***************************************************************************)
(* GET /audits/status/{task_id}.  Every access to task_result.status,      *)
(* .info or .result fetches the record from the backend again, until a     *)
(* fetch sees a READY state, which the AsyncResult then keeps.  A step of  *)
(* the query is one such access; the worker may write between two steps.   *)
(***************************************************************************)
\* what the backend returns for a key: no record reads as PENDING
get_task_meta(id) ==
    IF backend[id] = NoRecord
    THEN [status |-> "PENDING", meta |-> NullMeta]
    ELSE backend[id]

\* decoding a record in an exception state needs a serialised exception
\* (exc_type); the dictionary stored by run_site_crawl's except block has none
DecodeRaises(id) ==
    /\ backend[id].status \in EXCEPTION_STATES
    /\ backend[id].meta.kind # "exc"

Fetch       == IF qcache.set THEN qcache.rec ELSE get_task_meta(qid)
FetchRaises == ~qcache.set /\ DecodeRaises(qid)
CacheAfterFetch ==
    IF ~qcache.set /\ get_task_meta(qid).status \in READY_STATES
    THEN [set |-> TRUE, rec |-> get_task_meta(qid)]
    ELSE qcache

\* the job as the system knows it: never submitted, running or waiting,
\* finished, or finished and its record reclaimed
JobPhase(id) ==
    IF id \notin 1 .. nextId THEN "unknown"
    ELSE IF id \in expired THEN "expired"
    ELSE IF outcome[id] # "none" THEN "final"
    ELSE "active"

\* bool(task_result): AsyncResult defines neither __bool__ nor __len__
AsyncResultIsTruthy(id) == TRUE

\* except Exception: HTTP 500 "Failed to retrieve task status"
InternalError ==
    /\ resp' = [NoResp EXCEPT !.code = 500, !.message = "Failed to retrieve task status"]
    /\ qpc' = "done"
    /\ qcache' = NoCache

\* return response
Return(r) ==
    /\ resp' = r
    /\ qpc' = "done"
    /\ qcache' = NoCache

\* one access to task_result.status that branches to yes or no
StatusIs(state, yes, no) ==
    /\ IF FetchRaises
       THEN InternalError
       ELSE /\ qpc' = IF Fetch.status = state THEN yes ELSE no
            /\ qcache' = CacheAfterFetch
            /\ resp' = resp
    /\ UNCHANGED << qid, qbegin >>
    /\ SubmissionSent
    /\ UNCHANGED << jobVars, cacheVars, keyVars, submitVars, moreVars >>

\* task_result = celery_app.AsyncResult(task_id); if not task_result: 404
get_audit_status_begin ==
    /\ qpc = "idle"
    /\ \E id \in (1 .. nextId) \cup {UnknownId} :
        /\ qid' = id
        /\ qbegin' = JobPhase(id)
        /\ IF AsyncResultIsTruthy(id)
           THEN /\ qpc' = "L181"
                /\ resp' = NoResp
           ELSE /\ qpc' = "done"
                /\ resp' = [NoResp EXCEPT !.code = 404, !.message = "Task not found"]
    /\ qcache' = NoCache
    /\ SubmissionSent
    /\ UNCHANGED << jobVars, cacheVars, keyVars, submitVars, moreVars >>

\* response = {"task_id": task_id, "status": task_result.status, ...}
get_audit_status_L181 ==
    /\ qpc = "L181"
    /\ IF FetchRaises
       THEN InternalError
       ELSE /\ resp' = [NoResp EXCEPT !.code = 200, !.status = Fetch.status]
            /\ qcache' = CacheAfterFetch
            /\ qpc' = "L190"
    /\ UNCHANGED << qid, qbegin >>
    /\ SubmissionSent
    /\ UNCHANGED << jobVars, cacheVars, keyVars, submitVars, moreVars >>

\* if task_result.status == "PENDING":
get_audit_status_L190 ==
    /\ qpc = "L190"
    /\ StatusIs("PENDING", "L191", "L193")

get_audit_status_L191 ==
    /\ qpc = "L191"
    /\ Return([resp EXCEPT !.message = "Task is waiting to be processed"])
    /\ UNCHANGED << qid, qbegin >>
    /\ SubmissionSent
    /\ UNCHANGED << jobVars, cacheVars, keyVars, submitVars, moreVars >>

\* elif task_result.status == "PROGRESS":
get_audit_status_L193 ==
    /\ qpc = "L193"
    /\ StatusIs("PROGRESS", "L194", "L197")

\* response["progress"] = task_result.info
get_audit_status_L194 ==
    /\ qpc = "L194"
    /\ IF FetchRaises
       THEN InternalError
       ELSE Return([resp EXCEPT !.progress = Fetch.meta,
                                !.message = "Task is being processed"])
    /\ UNCHANGED << qid, qbegin >>
    /\ SubmissionSent
    /\ UNCHANGED << jobVars, cacheVars, keyVars, submitVars, moreVars >>

\* elif task_result.status == "SUCCESS":
get_audit_status_L197 ==
    /\ qpc = "L197"
    /\ StatusIs("SUCCESS", "L198", "L201")

\* response["result"] = task_result.result
get_audit_status_L198 ==
    /\ qpc = "L198"
    /\ IF FetchRaises
       THEN InternalError
       ELSE Return([resp EXCEPT !.result = Fetch.meta,
                                !.message = "Task completed successfully"])
    /\ UNCHANGED << qid, qbegin >>
    /\ SubmissionSent
    /\ UNCHANGED << jobVars, cacheVars, keyVars, submitVars, moreVars >>

\* elif task_result.status == "FAILURE":
get_audit_status_L201 ==
    /\ qpc = "L201"
    /\ StatusIs("FAILURE", "L202", "L206")

\* the bug of reporting repr(exception), which wraps the message
Repr(meta) == "Exception(...)"

\* str(exception): the message of the stored exception
Str(meta) == meta.msg

\* response["error"] = str(task_result.info)
get_audit_status_L202 ==
    /\ qpc = "L202"
    /\ IF FetchRaises
       THEN InternalError
       ELSE Return([resp EXCEPT !.error = Str(Fetch.meta),
                                !.message = "Task failed to complete"])
    /\ UNCHANGED << qid, qbegin >>
    /\ SubmissionSent
    /\ UNCHANGED << jobVars, cacheVars, keyVars, submitVars, moreVars >>

\* else: response["message"] = f"Task status: {task_result.status}"
get_audit_status_L206 ==
    /\ qpc = "L206"
    /\ IF FetchRaises
       THEN InternalError
       ELSE Return([resp EXCEPT !.message = Fetch.status])
    /\ UNCHANGED << qid, qbegin >>
    /\ SubmissionSent
    /\ UNCHANGED << jobVars, cacheVars, keyVars, submitVars, moreVars >>

\* the response has been sent; the handler's locals are gone
get_audit_status_end ==
    /\ qpc = "done"
    /\ qpc' = "idle"
    /\ qid' = UnknownId
    /\ qbegin' = "unknown"
    /\ resp' = NoResp
    /\ UNCHANGED qcache
    /\ SubmissionSent
    /\ UNCHANGED << jobVars, cacheVars, keyVars, submitVars, moreVars >>

(***************************************************************************)
(* _generate_cache_key(prefix, **kwargs).                                  *)
(* A keyword argument is a pair [name, value]; **kwargs is the sequence of *)
(* the pairs in call order, with pairwise different names.                 *)
(***************************************************************************)
\* the parameter names of the model, in the order of Python's str comparison
NamesInOrder == << "a", "b", "domain", "keyword", "language", "location", "url" >>
KwNames      == {NamesInOrder[i] : i \in 1 .. Len(NamesInOrder)}
NameRank(n)  == CHOOSE i \in 1 .. Len(NamesInOrder) : NamesInOrder[i] = n

\* a str value and an int value
StrValue(text) == [type |-> "str", text |-> text]
IntValue(text) == [type |-> "int", text |-> text]

\* f"{v}": the text of a str is the str, the text of an int its decimal digits
Format(v) == v.text

\* the bug of serialising the arguments in call order
items_in_call_order(kwargs) == kwargs

\* sorted(kwargs.items()): by name, the names being pairwise different
sorted_items(kwargs) ==
    SortSeq(kwargs, LAMBDA x, y : NameRank(x.name) < NameRank(y.name))

\* f"{k}={v}" for one item
ItemText(item) == item.name \o "=" \o Format(item.value)

\* ":".join(texts)
RECURSIVE Join(_)
Join(texts) ==
    IF texts = << >> THEN ""
    ELSE IF Len(texts) = 1 THEN texts[1]
    ELSE texts[1] \o ":" \o Join(Tail(texts))

\* key_data = f"{prefix}:" + ":".join(f"{k}={v}" for k, v in sorted(kwargs.items()))
key_data(prefix, kwargs) ==
    prefix \o ":" \o Join([i \in 1 .. Len(kwargs) |-> ItemText(sorted_items(kwargs)[i])])

\* hashlib.sha256(key_data.encode()).hexdigest(): a digest per text
sha256(text) == "sha256(" \o text \o ")"

\* return f"{prefix}:{key_hash}"
generate_cache_key(prefix, kwargs) ==
    prefix \o ":" \o sha256(key_data(prefix, kwargs))

\* before any call
NoKeyCall == [prefix |-> "None", kwargs |-> << >>]
NoKey     == "None"
KeyUnused == kcall = NoKeyCall /\ kret = NoKey

(***************************************************************************)
(* The cache gateway.                                                      *)
(***************************************************************************)
Lookups == {"pagespeed", "serp", "backlinks"}
None    == "None"
\* a value json.dumps cannot serialise
Unserializable == "<object>"

\* the payload a lookup computes (mock_data)
MockData(op) == [data |-> op]
NoData       == [data |-> None]

\* json.dumps / json.loads: what is stored is the encoded text
JsonDumps(v)    == [fmt |-> "json", val |-> v]
JsonDecodes(p)  == p.fmt = "json"
JsonLoads(p)    == p.val
Garbage         == [fmt |-> "garbage", val |-> NoData]
NoEntry         == [payload |-> [fmt |-> "none", val |-> NoData], expires_at |-> 0]

\* the expiry time of an entry stored without one: after every time of the model
Never == MaxTime + DefaultTtl + 1

\* Redis: an entry is there until its expiry time
Live(k) == cache[k].payload.fmt # "none" /\ now < cache[k].expires_at

\* names the except clauses look up, and whether the module has them
ModuleHas(name) == name \in {"redis.RedisError", "redis.ConnectionError",
                             "json.JSONDecodeError"}
IsInstance(e, name) ==
    \/ e = name
    \/ e = "redis.ConnectionError" /\ name = "redis.RedisError"

\* except (<clause>) as e: the tuple is evaluated when an exception arrives;
\* a name the module lacks raises AttributeError in place of the handling
ExceptClause(clause, e) ==
    IF \E n \in clause : ~ModuleHas(n)
    THEN [caught |-> FALSE, exc |-> "AttributeError"]
    ELSE IF \E n \in clause : IsInstance(e, n)
         THEN [caught |-> TRUE, exc |-> e]
         ELSE [caught |-> FALSE, exc |-> e]

GetClause == {"redis.RedisError", "json.JSONDecodeError"}
SetClause == {"redis.RedisError", "json.JSONEncodeError"}

Returned(v) == [kind |-> "returned", value |-> v, exc |-> None]
Raised(e)   == [kind |-> "raised", value |-> NoData, exc |-> e]
AfterExcept(h) == IF h.caught THEN Returned(NoData) ELSE Raised(h.exc)

\* the bug of naming json.JSONEncodeError in the except clause of the read
get_cached_result_wrong_clause(k) ==
    IF redis_client = None
    THEN Returned(NoData)
    ELSE IF ~storeUp
         THEN AfterExcept(ExceptClause(SetClause, "redis.ConnectionError"))
         ELSE IF Live(k)
              THEN IF JsonDecodes(cache[k].payload)
                   THEN Returned(JsonLoads(cache[k].payload))
                   ELSE AfterExcept(ExceptClause(SetClause, "json.JSONDecodeError"))
              ELSE Returned(NoData)

\* _get_cached_result(cache_key)
get_cached_result(k) ==
    IF redis_client = None
    THEN Returned(NoData)
    ELSE IF ~storeUp
         THEN AfterExcept(ExceptClause(GetClause, "redis.ConnectionError"))
         ELSE IF Live(k)
              THEN IF JsonDecodes(cache[k].payload)
                   THEN Returned(JsonLoads(cache[k].payload))
                   ELSE AfterExcept(ExceptClause(GetClause, "json.JSONDecodeError"))
              ELSE Returned(NoData)

\* _set_cached_result(cache_key, result, ttl): the outcome of the call
set_cached_result(k, v, ttl) ==
    IF redis_client = None
    THEN Returned(NoData)
    ELSE IF v = MockData(Unserializable)
         THEN AfterExcept(ExceptClause(SetClause, "TypeError"))
         ELSE IF ~storeUp
              THEN AfterExcept(ExceptClause(SetClause, "redis.ConnectionError"))
              ELSE Returned(NoData)

\* ... and whether redis_client.setex(cache_key, ttl, cached_data) was done
SetWrites(k, v) ==
    redis_client # None /\ v # MockData(Unserializable) /\ storeUp

\* the bug of a write that does not reach the store
cache_after_set_lost(k, v, ttl) == cache

\* the bug of storing every entry with the default ttl
cache_after_set_default_ttl(k, v, ttl) ==
    IF SetWrites(k, v)
    THEN [cache EXCEPT ![k] = [payload |-> JsonDumps(v), expires_at |-> now + DefaultTtl]]
    ELSE cache

cache_after_set(k, v, ttl) ==
    IF SetWrites(k, v)
    THEN [cache EXCEPT ![k] = [payload |-> JsonDumps(v), expires_at |-> now + ttl]]
    ELSE cache

(***************************************************************************)
(* The cached lookups and their arguments.  A call is the sequence of its  *)
(* keyword arguments in the caller's order; Python binds them to the       *)
(* parameters, omitted ones taking their defaults.                         *)
(***************************************************************************)
\* def get_pagespeed_insights(url) / get_serp_data(keyword, location="US",
\* language="en") / get_backlink_data(domain)
LookupParams(op) ==
    CASE op = "pagespeed" -> << "url" >>
      [] op = "serp"      -> << "keyword", "location", "language" >>
      [] op = "backlinks" -> << "domain" >>
HasDefault(name) == name \in {"location", "language"}
\* the value each parameter has in the calls of the model (the default of a
\* parameter that has one)
ArgValue(name) ==
    CASE name = "url"      -> StrValue("https://example.com")
      [] name = "keyword"  -> StrValue("seo")
      [] name = "location" -> StrValue("US")
      [] name = "language" -> StrValue("en")
      [] name = "domain"   -> StrValue("example.com")

ParamSet(op)    == {LookupParams(op)[i] : i \in 1 .. Len(LookupParams(op))}
CallNames(call) == {call[i].name : i \in 1 .. Len(call)}

\* the calls of op: its arguments in any order, defaults given or omitted
LookupCalls(op) ==
    {call \in UNION {[1 .. n -> {[name |-> x, value |-> ArgValue(x)] : x \in ParamSet(op)}] :
                        n \in 1 .. Len(LookupParams(op))} :
        /\ \A i, j \in 1 .. Len(call) : i # j => call[i].name # call[j].name
        /\ \A x \in ParamSet(op) : HasDefault(x) \/ x \in CallNames(call)}

\* the value the call binds to a parameter
Bound(call, name) ==
    IF name \in CallNames(call)
    THEN call[CHOOSE i \in 1 .. Len(call) : call[i].name = name].value
    ELSE ArgValue(name)

\* the keyword arguments the lookup passes on to _generate_cache_key, e.g.
\* _generate_cache_key("serp", keyword=keyword, location=location, language=language)
LookupKwargs(op, call) ==
    [i \in 1 .. Len(LookupParams(op)) |->
        [name |-> LookupParams(op)[i], value |-> Bound(call, LookupParams(op)[i])]]

\* cache_key = _generate_cache_key(op, ...)
cache_key(op, call) == generate_cache_key(op, LookupKwargs(op, call))

\* every call of the model with the key it computes
KeyedCalls ==
    UNION {{[op |-> op, call |-> call, key |-> cache_key(op, call)] :
               call \in LookupCalls(op)} : op \in Lookups}

\* the keys of the model: those of the lookups
CacheKeys == {c.key : c \in KeyedCalls}
\* the lookup a key belongs to
OpOfKey(k) == (CHOOSE c \in KeyedCalls : c.key = k).op

\* the latest write of the gateway under a key that no other client has
\* overwritten since: when, with what ttl, which value
NotWritten == [set |-> FALSE, at |-> 0, ttl |-> 0, value |-> NoData]
written_after_set(k, v, ttl) ==
    IF SetWrites(k, v)
    THEN [written EXCEPT ![k] = [set |-> TRUE, at |-> now, ttl |-> ttl, value |-> v]]
    ELSE written

\* what the store looked like to a gateway call, recorded with its outcome
Ctx(k) ==
    [client |-> redis_client # None, up |-> storeUp, live |-> Live(k),
     decodes |-> JsonDecodes(cache[k].payload), stored |-> cache[k].payload.val]
Unreachable == redis_client = None \/ ~storeUp

NoCall ==
    [call |-> "none", key |-> NoKey, op |-> None, arg |-> NoData,
     out |-> Returned(NoData),
     ctx |-> [client |-> FALSE, up |-> FALSE, live |-> FALSE, decodes |-> FALSE,
              stored |-> NoData],
     down |-> FALSE]

TtlArgs == {1, DefaultTtl}

\* the bug of a read that renews the entry's time to live (GETEX)
cache_after_get_renewed(k) ==
    IF redis_client # None /\ storeUp /\ Live(k)
    THEN [cache EXCEPT ![k].expires_at = now + DefaultTtl]
    ELSE cache

\* redis_client.get(cache_key) reads; the entry and its expiry stay
cache_after_get(k) == cache

\* a direct call of _get_cached_result
call_get_cached_result ==
    /\ cpc \in {"idle", "done"}
    /\ \E k \in DOMAIN cache :
        /\ cres' = [NoCall EXCEPT !.call = "get", !.key = k, !.out = get_cached_result(k),
                                  !.ctx = Ctx(k), !.down = Unreachable]
        /\ cache' = cache_after_get(k)
    /\ cpc' = "idle"
    /\ UNCHANGED << redis_client, storeUp, written, now, ckey >>
    /\ UNCHANGED << jobVars, queryVars, keyVars, submitVars, moreVars >>

\* a direct call of _set_cached_result
call_set_cached_result ==
    /\ cpc \in {"idle", "done"}
    /\ \E k \in DOMAIN cache, ttl \in TtlArgs :
        \E v \in {MockData(OpOfKey(k)), MockData(Unserializable)} :
            /\ cres' = [NoCall EXCEPT !.call = "set", !.key = k, !.arg = v,
                                      !.out = set_cached_result(k, v, ttl),
                                      !.ctx = Ctx(k), !.down = Unreachable]
            /\ cache' = cache_after_set(k, v, ttl)
            /\ written' = written_after_set(k, v, ttl)
    /\ cpc' = "idle"
    /\ UNCHANGED << redis_client, storeUp, now, ckey >>
    /\ UNCHANGED << jobVars, queryVars, keyVars, submitVars, moreVars >>

\* get_pagespeed_insights / get_serp_data / get_backlink_data:
\* cache_key = _generate_cache_key(...); cached_result = _get_cached_result(cache_key);
\* if cached_result: return cached_result
cached_lookup_check ==
    /\ cpc \in {"idle", "done"}
    /\ \E k \in {c.key : c \in KeyedCalls} :
        LET got  == get_cached_result(k)
            this == [NoCall EXCEPT !.call = "lookup", !.key = k, !.op = OpOfKey(k),
                                   !.ctx = Ctx(k), !.down = Unreachable]
        IN  /\ ckey' = k
            /\ cache' = cache_after_get(k)
            /\ IF got.kind = "raised"
               THEN /\ cres' = [this EXCEPT !.out = got]
                    /\ cpc' = "done"
               ELSE IF got.value # NoData
                    THEN /\ cres' = [this EXCEPT !.out = got]
                         /\ cpc' = "done"
                    ELSE /\ cres' = [this EXCEPT !.out = Returned(NoData)]
                         /\ cpc' = "fetch"
    /\ UNCHANGED << redis_client, storeUp, written, now >>
    /\ UNCHANGED << jobVars, queryVars, keyVars, submitVars, moreVars >>

\* mock_data = {...}; _set_cached_result(cache_key, mock_data, ttl=86400);
\* return mock_data
cached_lookup_store ==
    /\ cpc = "fetch"
    /\ LET put == set_cached_result(ckey, MockData(cres.op), DefaultTtl) IN
       cres' = [cres EXCEPT
                  !.out = IF put.kind = "raised" THEN put ELSE Returned(MockData(cres.op)),
                  !.arg = MockData(cres.op),
                  !.down = cres.down /\ Unreachable]
    /\ cache' = cache_after_set(ckey, MockData(cres.op), DefaultTtl)
    /\ written' = written_after_set(ckey, MockData(cres.op), DefaultTtl)
    /\ cpc' = "done"
    /\ UNCHANGED << redis_client, storeUp, now, ckey >>
    /\ UNCHANGED << jobVars, queryVars, keyVars, submitVars, moreVars >>

\* the environment: the Redis server stops or starts answering
store_fails ==
    /\ storeUp
    /\ storeUp' = FALSE
    /\ UNCHANGED << redis_client, cache, written, now, cpc, ckey, cres >>
    /\ UNCHANGED << jobVars, queryVars, keyVars, submitVars, moreVars >>

store_recovers ==
    /\ ~storeUp
    /\ storeUp' = TRUE
    /\ UNCHANGED << redis_client, cache, written, now, cpc, ckey, cres >>
    /\ UNCHANGED << jobVars, queryVars, keyVars, submitVars, moreVars >>

\* another client of the same Redis database stores text that is not JSON,
\* with SET and no expiry
foreign_write ==
    /\ storeUp
    /\ \E k \in DOMAIN cache :
        /\ cache' = [cache EXCEPT ![k] = [payload |-> Garbage, expires_at |-> Never]]
        /\ written' = [written EXCEPT ![k] = NotWritten]
    /\ UNCHANGED << redis_client, storeUp, now, cpc, ckey, cres >>
    /\ UNCHANGED << jobVars, queryVars, keyVars, submitVars, moreVars >>

\* a second passes; Redis drops the entries whose time has come
tick ==
    /\ now < MaxTime
    /\ now' = now + 1
    /\ cache' = [k \in DOMAIN cache |->
                   IF cache[k].payload.fmt # "none" /\ now + 1 >= cache[k].expires_at
                   THEN NoEntry ELSE cache[k]]
    /\ UNCHANGED << redis_client, storeUp, written, cpc, ckey, cres >>
    /\ UNCHANGED << jobVars, queryVars, keyVars, submitVars, moreVars >>

(***************************************************************************)
(* clear_cache(pattern="*") and is_service_available().  clear_cache makes *)
(* two requests to the store, KEYS and DEL; other workers' requests may    *)
(* come between them.                                                      *)
(***************************************************************************)
\* the patterns of the model: everything, the keys of one lookup, a prefix
\* no key has
Patterns == {"*", "serp:*", "pagespeed:*", "audit:*"}

\* Redis glob matching of a key, for patterns that are "*" or end in ":*"
Matches(pattern, k) == pattern = "*" \/ pattern = OpOfKey(k) \o ":*"

\* redis_client.keys(pattern): the entries there are now
Keys(pattern) == {k \in DOMAIN cache : Live(k) /\ Matches(pattern, k)}

ClearClause == {"redis.RedisError"}

NoClear ==
    [call |-> "none", pattern |-> None, kind |-> "returned", count |-> 0, exc |-> None,
     avail |-> FALSE, client |-> FALSE, up |-> FALSE, listed |-> 0]
\* return n / the except clause of clear_cache: logs and returns 0
ClearReturned(pattern, n) ==
    [NoClear EXCEPT !.call = "clear", !.pattern = pattern, !.count = n,
                    !.client = redis_client # None, !.up = storeUp]
ClearExcept(pattern, h) ==
    IF h.caught
    THEN ClearReturned(pattern, 0)
    ELSE [ClearReturned(pattern, 0) EXCEPT !.kind = "raised", !.exc = h.exc]

\* if redis_client is None: return 0;  keys = redis_client.keys(pattern);
\* if keys: ... else: return 0
clear_cache_keys ==
    /\ clpc = "idle"
    /\ \E pattern \in Patterns :
        IF redis_client = None
        THEN /\ cret' = ClearReturned(pattern, 0)
             /\ UNCHANGED << clpc, cpat, ckeys >>
        ELSE IF ~storeUp
             THEN /\ cret' = ClearExcept(pattern, ExceptClause(ClearClause, "redis.ConnectionError"))
                  /\ UNCHANGED << clpc, cpat, ckeys >>
             ELSE IF Keys(pattern) = {}
                  THEN /\ cret' = ClearReturned(pattern, 0)
                       /\ UNCHANGED << clpc, cpat, ckeys >>
                  ELSE /\ clpc' = "listed"
                       /\ cpat' = pattern
                       /\ ckeys' = Keys(pattern)
                       /\ cret' = cret
    /\ UNCHANGED << cacheVars, raceVars, aiVars >>
    /\ UNCHANGED << jobVars, queryVars, keyVars, submitVars >>

\* the bug of deleting what matches at the time of the deletion
DeleteArgsListedAgain == Keys(cpat)

\* the arguments of redis_client.delete(*keys): the keys listed
DeleteArgs == ckeys

\* the bug of returning len(keys)
deleted_as_listed == Cardinality(ckeys)

\* deleted = redis_client.delete(*keys): DEL answers the number of keys it
\* removed, those that were still there
deleted == Cardinality({k \in DeleteArgs : Live(k)})

\* deleted = redis_client.delete(*keys); return deleted
clear_cache_delete ==
    /\ clpc = "listed"
    /\ IF ~storeUp
       THEN /\ cret' = ClearExcept(cpat, ExceptClause(ClearClause, "redis.ConnectionError"))
            /\ UNCHANGED << cache, written >>
       ELSE /\ cret' = [ClearReturned(cpat, deleted) EXCEPT !.listed = Cardinality(ckeys)]
            /\ cache' = [k \in DOMAIN cache |-> IF k \in DeleteArgs THEN NoEntry ELSE cache[k]]
            /\ written' = [k \in DOMAIN written |->
                             IF k \in DeleteArgs THEN NotWritten ELSE written[k]]
    /\ clpc' = "idle"
    /\ cpat' = None
    /\ ckeys' = {}
    /\ UNCHANGED << redis_client, storeUp, now, cpc, ckey, cres >>
    /\ UNCHANGED << raceVars, aiVars >>
    /\ UNCHANGED << jobVars, queryVars, keyVars, submitVars >>

\* the bug of asking the server each time
is_service_available_probing == storeUp

\* return redis_client is not None
is_service_available == redis_client # None

call_is_service_available ==
    /\ clpc = "idle"
    /\ cret' = [NoClear EXCEPT !.call = "available", !.avail = is_service_available,
                               !.client = redis_client # None, !.up = storeUp]
    /\ UNCHANGED << clpc, cpat, ckeys >>
    /\ UNCHANGED << cacheVars, raceVars, aiVars >>
    /\ UNCHANGED << jobVars, queryVars, keyVars, submitVars >>

\* another worker process, with a client of its own, stores a result:
\* redis_client.setex(cache_key, ttl, cached_data)
other_worker_set ==
    /\ storeUp
    /\ \E k \in DOMAIN cache, ttl \in TtlArgs :
        /\ cache' = [cache EXCEPT ![k] = [payload    |-> JsonDumps(MockData(OpOfKey(k))),
                                          expires_at |-> now + ttl]]
        /\ written' = [written EXCEPT ![k] = [set |-> TRUE, at |-> now, ttl |-> ttl,
                                              value |-> MockData(OpOfKey(k))]]
    /\ UNCHANGED << redis_client, storeUp, now, cpc, ckey, cres >>
    /\ UNCHANGED << clearVars, raceVars, aiVars >>
    /\ UNCHANGED << jobVars, queryVars, keyVars, submitVars >>

ClearUnused ==
    /\ clpc = "idle"
    /\ cpat = None
    /\ ckeys = {}
    /\ cret = NoClear

(***************************************************************************)
(* Two workers, each running one cached lookup: the check and the store    *)
(* are separate requests to the store, and the other worker's requests may *)
(* come between them.                                                      *)
(***************************************************************************)
Workers == {1, 2}

NoLookup == [out |-> Returned(NoData), down |-> FALSE, hit |-> FALSE]

\* the bug of a payload that carries something of the call that computed it
mock_data_of_call(w, k) == [data |-> OpOfKey(k) \o (IF w = 1 THEN "@1" ELSE "@2")]

\* mock_data = {...}: the same literal in every call of the lookup
mock_data(w, k) == MockData(OpOfKey(k))

\* cache_key = _generate_cache_key(...); cached_result = _get_cached_result(cache_key);
\* if cached_result: return cached_result
lookup_check(w) ==
    /\ lpc[w] = "idle"
    /\ \E k \in CacheKeys :
        LET got == get_cached_result(k) IN
        /\ lkey' = [lkey EXCEPT ![w] = k]
        /\ cache' = cache_after_get(k)
        /\ IF got.kind = "raised" \/ got.value # NoData
           THEN /\ lout' = [lout EXCEPT ![w] = [out |-> got, down |-> Unreachable,
                                                 hit |-> got.kind = "returned"]]
                /\ lpc' = [lpc EXCEPT ![w] = "done"]
           ELSE /\ lout' = [lout EXCEPT ![w] = [out |-> Returned(NoData), down |-> Unreachable,
                                                 hit |-> FALSE]]
                /\ lpc' = [lpc EXCEPT ![w] = "fetch"]
    /\ UNCHANGED << redis_client, storeUp, written, now, cpc, ckey, cres >>
    /\ UNCHANGED << clearVars, aiVars >>
    /\ UNCHANGED << jobVars, queryVars, keyVars, submitVars >>

\* mock_data = {...}; _set_cached_result(cache_key, mock_data, ttl=86400);
\* return mock_data
lookup_store(w) ==
    /\ lpc[w] = "fetch"
    /\ LET v   == mock_data(w, lkey[w])
           put == set_cached_result(lkey[w], v, DefaultTtl)
       IN  /\ lout' = [lout EXCEPT ![w] =
                         [out  |-> IF put.kind = "raised" THEN put ELSE Returned(v),
                          down |-> lout[w].down \/ Unreachable,
                          hit  |-> FALSE]]
           /\ cache' = cache_after_set(lkey[w], v, DefaultTtl)
           /\ written' = written_after_set(lkey[w], v, DefaultTtl)
    /\ lpc' = [lpc EXCEPT ![w] = "done"]
    /\ UNCHANGED << redis_client, storeUp, now, cpc, ckey, cres, lkey >>
    /\ UNCHANGED << clearVars, aiVars >>
    /\ UNCHANGED << jobVars, queryVars, keyVars, submitVars >>

worker_lookup_check == \E w \in Workers : lookup_check(w)
worker_lookup_store == \E w \in Workers : lookup_store(w)

RaceUnused ==
    /\ lpc = [w \in Workers |-> "idle"]
    /\ lkey = [w \in Workers |-> NoKey]
    /\ lout = [w \in Workers |-> NoLookup]

(***************************************************************************)
(* invoke_gemini_model(prompt, model_name, response_mime_type).            *)
(***************************************************************************)
\* prompts: None, empty, white space only, and texts
BlankPrompts == {None, "", " ", "\n\t"}
TextPrompts  == {"brief", " brief ", "{\"topic\": 1}", "outline"}
Prompts      == BlankPrompts \cup TextPrompts
\* prompt.strip(), for the prompts of the model
strip(prompt) ==
    CASE prompt \in {"", " ", "\n\t"} -> ""
      [] prompt = " brief "          -> "brief"
      [] OTHER                       -> prompt
ModelNames == {"gemini-2.5-pro", "gemini-1.5-flash"}
MimeTypes  == {"application/json", "text/plain"}

\* the classes of google.api_core.exceptions and of Python the model raises,
\* each with its base class
BaseOf(e) ==
    CASE e = "InvalidArgument"    -> "BadRequest"
      [] e = "BadRequest"         -> "ClientError"
      [] e = "ResourceExhausted"  -> "TooManyRequests"
      [] e = "TooManyRequests"    -> "ClientError"
      [] e = "PermissionDenied"   -> "Forbidden"
      [] e = "Forbidden"          -> "ClientError"
      [] e = "ClientError"        -> "GoogleAPICallError"
      [] e = "ServiceUnavailable" -> "ServerError"
      [] e = "ServerError"        -> "GoogleAPICallError"
      [] e = "GoogleAPICallError" -> "GoogleAPIError"
      [] e = "GoogleAPIError"     -> "Exception"
      [] e = "ValueError"         -> "Exception"
      [] e = "TimeoutError"       -> "OSError"
      [] e = "OSError"            -> "Exception"
      [] OTHER                    -> "BaseException"
RECURSIVE IsSubclass(_, _)
IsSubclass(e, base) ==
    \/ e = base
    \/ e # "BaseException" /\ IsSubclass(BaseOf(e), base)

\* what vertex_model.generate_content(...) and the response do in a call:
\* a response with text, one with empty text, no response, a response whose
\* .text raises ValueError (no candidate), or an exception
Generations ==
    {[kind |-> "text", text |-> t, exc |-> None] : t \in {"{}", "{\"a\": 1}", "ok"}}
    \cup {[kind |-> "text", text |-> "", exc |-> None],
          [kind |-> "no response", text |-> "", exc |-> None],
          [kind |-> "text raises", text |-> "", exc |-> "ValueError"]}
    \cup {[kind |-> "raises", text |-> "", exc |-> e] :
             e \in {"InvalidArgument", "ResourceExhausted", "PermissionDenied",
                    "ServiceUnavailable", "GoogleAPIError", "TimeoutError"}}
NotGenerated == [kind |-> "not called", text |-> "", exc |-> None]

\* the bug of a handler for the API's errors only
ExceptChainApiOnly ==
    << "InvalidArgument", "ResourceExhausted", "PermissionDenied", "GoogleAPIError" >>

\* the except clauses of invoke_gemini_model, in their order
ExceptChain ==
    << "InvalidArgument", "ResourceExhausted", "PermissionDenied", "GoogleAPIError",
       "Exception" >>

AiReturned(v) == [kind |-> "returned", value |-> v, exc |-> None]
AiRaised(e)   == [kind |-> "raised", value |-> "", exc |-> e]

\* the try statement: the body's result, or the first clause that matches
\* the exception, each of which returns ""
try_generate(gen) ==
    IF gen.exc = None
    THEN IF gen.kind = "text" /\ gen.text # ""
         THEN AiReturned(gen.text)
         ELSE AiReturned("")
    ELSE IF \E i \in 1 .. Len(ExceptChain) : IsSubclass(gen.exc, ExceptChain[i])
         THEN AiReturned("")
         ELSE AiRaised(gen.exc)

NoAiCall ==
    [prompt |-> None, model_name |-> None, response_mime_type |-> None,
     gen |-> NotGenerated, out |-> AiReturned("")]

invoke_gemini_model ==
    /\ \E prompt \in Prompts, model_name \in ModelNames, response_mime_type \in MimeTypes :
        LET this == [NoAiCall EXCEPT !.prompt = prompt, !.model_name = model_name,
                                     !.response_mime_type = response_mime_type]
        IN  IF prompt = None \/ prompt = "" \/ strip(prompt) = ""
            THEN aicall' = [this EXCEPT !.out = AiRaised("ValueError")]
            ELSE IF vertex_model = None
                 THEN aicall' = [this EXCEPT !.out = AiRaised("RuntimeError")]
                 ELSE \E gen \in Generations :
                        aicall' = [this EXCEPT !.gen = gen, !.out = try_generate(gen)]
    /\ UNCHANGED vertex_model
    /\ UNCHANGED << cacheVars, clearVars, raceVars >>
    /\ UNCHANGED << jobVars, queryVars, keyVars, submitVars >>

\* module import: vertex_model is a GenerativeModel when a project id is in
\* the environment and vertexai.init succeeds, and None otherwise
InitAI ==
    /\ vertex_model \in {None, "GenerativeModel"}
    /\ aicall = NoAiCall

AIUnused ==
    /\ vertex_model = None
    /\ aicall = NoAiCall

MoreUnused == ClearUnused /\ RaceUnused /\ AIUnused

(***************************************************************************)
(* Specifications.                                                         *)
(***************************************************************************)
\* module import: redis.from_url(...); redis_client.ping(); on any error None
InitCache ==
    /\ storeUp \in BOOLEAN
    /\ redis_client = IF storeUp THEN "client" ELSE None
    /\ cache = [k \in CacheKeys |-> NoEntry]
    /\ written = [k \in CacheKeys |-> NotWritten]
    /\ now = 0
    /\ cpc = "idle"
    /\ ckey = NoKey
    /\ cres = NoCall

\* no submission is being answered; the run admits n jobs
InitSubmit(n) ==
    /\ quota = n
    /\ spc = "idle"
    /\ sreq = NoSubmission
    /\ sresp = NoSubmitResp
    /\ issued = << >>

CacheUnused ==
    /\ storeUp = FALSE
    /\ redis_client = None
    /\ cache = [k \in CacheKeys |-> NoEntry]
    /\ written = [k \in CacheKeys |-> NotWritten]
    /\ now = 0
    /\ cpc = "idle"
    /\ ckey = NoKey
    /\ cres = NoCall

Init == InitJobs /\ InitQuery /\ InitSubmit(MaxJobs) /\ CacheUnused /\ KeyUnused /\ MoreUnused

Worker ==
    \/ WorkerPickup
    \/ run_site_crawl_initialization
    \/ run_site_crawl_discovery
    \/ run_site_crawl_page
    \/ run_site_crawl_analysis
    \/ analyze_site_performance_initialization
    \/ generate_content_brief_serp
    \/ generate_content_brief_competitor
    \/ generate_content_brief_ai
    \/ task_return
    \/ body_raises
    \/ run_site_crawl_except
    \/ task_except
    \/ autoretry_retry
    \/ autoretry_give_up

Query ==
    \/ get_audit_status_begin
    \/ get_audit_status_L181
    \/ get_audit_status_L190
    \/ get_audit_status_L191
    \/ get_audit_status_L193
    \/ get_audit_status_L194
    \/ get_audit_status_L197
    \/ get_audit_status_L198
    \/ get_audit_status_L201
    \/ get_audit_status_L202
    \/ get_audit_status_L206
    \/ get_audit_status_end

Next ==
    \/ start_site_audit
    \/ start_site_audit_end
    \/ delay_other_task
    \/ Worker
    \/ expire_result
    \/ Query

Spec == Init /\ [][Next]_vars

\* a worker that has work keeps working
\* The worker is a process of its own: it keeps taking steps whatever the
\* status endpoint does, so a step it can take again and again is taken.
FairSpec ==
    Spec /\ SF_vars(Worker) /\ WF_vars(get_audit_status_end)
         /\ WF_vars(start_site_audit_end)

(***************************************************************************)
(* SpecSubmit: site audit submissions, their worker and the reclaiming of  *)
(* records.                                                                *)
(***************************************************************************)
InitSubmitSpec ==
    InitJobs /\ InitQuery /\ InitSubmit(MaxJobs + 1) /\ CacheUnused /\ KeyUnused /\ MoreUnused

\* the steps of a worker that executes site crawls
CrawlWorker ==
    \/ WorkerPickup
    \/ run_site_crawl_initialization
    \/ run_site_crawl_discovery
    \/ run_site_crawl_page
    \/ run_site_crawl_analysis
    \/ task_return
    \/ body_raises
    \/ run_site_crawl_except
    \/ autoretry_retry
    \/ autoretry_give_up

NextSubmit ==
    \/ start_site_audit
    \/ start_site_audit_end
    \/ CrawlWorker
    \/ expire_result

SpecSubmit == InitSubmitSpec /\ [][NextSubmit]_vars

InitCacheSpec == InitJobs /\ InitQuery /\ InitSubmit(MaxJobs) /\ InitCache /\ KeyUnused /\ MoreUnused

NextCache ==
    \/ call_get_cached_result
    \/ call_set_cached_result
    \/ cached_lookup_check
    \/ cached_lookup_store
    \/ store_fails
    \/ store_recovers
    \/ foreign_write
    \/ tick

SpecCache == InitCacheSpec /\ [][NextCache]_vars

(***************************************************************************)
(* SpecKey: calls of _generate_cache_key with arguments in any order.      *)
(***************************************************************************)
\* the calls of the model: at most MaxKwargs keyword arguments
KeyPrefixes == {"serp", "pagespeed"}
KeyValues   == {StrValue("x"), StrValue("y"), StrValue("x:b=y"), IntValue("1")}
KeyArgNames == {"a", "b", "keyword"}
KeyItems    == [name : KeyArgNames, value : KeyValues]
KwargsSeqs  ==
    {kw \in UNION {[1 .. n -> KeyItems] : n \in 0 .. MaxKwargs} :
        \A i, j \in 1 .. Len(kw) : i # j => kw[i].name # kw[j].name}

\* the same keyword arguments, whatever the order
SameKwargs(kw1, kw2) ==
    {kw1[i] : i \in 1 .. Len(kw1)} = {kw2[i] : i \in 1 .. Len(kw2)}

\* a call _generate_cache_key(prefix, **kwargs)
call_generate_cache_key ==
    /\ \E prefix \in KeyPrefixes, kwargs \in KwargsSeqs :
        /\ kcall' = [prefix |-> prefix, kwargs |-> kwargs]
        /\ kret' = generate_cache_key(prefix, kwargs)
    /\ UNCHANGED << jobVars, queryVars, cacheVars, submitVars, moreVars >>

InitKey == InitJobs /\ InitQuery /\ InitSubmit(MaxJobs) /\ CacheUnused /\ KeyUnused /\ MoreUnused
NextKey == call_generate_cache_key
SpecKey == InitKey /\ [][NextKey]_vars

\* clear_cache beside the writes of other workers, expiries and outages
InitClearSpec ==
    InitJobs /\ InitQuery /\ InitSubmit(MaxJobs) /\ InitCache /\ KeyUnused /\ MoreUnused

NextClear ==
    \/ clear_cache_keys
    \/ clear_cache_delete
    \/ other_worker_set
    \/ store_fails
    \/ store_recovers
    \/ tick

SpecClear == InitClearSpec /\ [][NextClear]_vars

\* every operation of the gateway in one process, the store coming and going
InitGatewaySpec ==
    InitJobs /\ InitQuery /\ InitSubmit(MaxJobs) /\ InitCache /\ KeyUnused /\ MoreUnused

NextGateway ==
    \/ call_is_service_available
    \/ call_get_cached_result
    \/ call_set_cached_result
    \/ clear_cache_keys
    \/ clear_cache_delete
    \/ store_fails
    \/ store_recovers

SpecGateway == InitGatewaySpec /\ [][NextGateway]_vars

\* two workers in cached lookups
InitRaceSpec ==
    InitJobs /\ InitQuery /\ InitSubmit(MaxJobs) /\ InitCache /\ KeyUnused /\ MoreUnused

NextRace ==
    \/ worker_lookup_check
    \/ worker_lookup_store
    \/ store_fails
    \/ store_recovers
    \/ tick

SpecRace == InitRaceSpec /\ [][NextRace]_vars

\* calls of invoke_gemini_model
InitAISpec ==
    /\ InitJobs /\ InitQuery /\ InitSubmit(MaxJobs) /\ CacheUnused /\ KeyUnused
    /\ ClearUnused /\ RaceUnused /\ InitAI

NextAI == invoke_gemini_model

SpecAI == InitAISpec /\ [][NextAI]_vars

(***************************************************************************)
(* Claims about the job engine (Spec, FairSpec).                           *)
(***************************************************************************)
StatusRank(st) ==
    CASE st = "NONE" -> 0
      [] st \in {"PROGRESS", "RETRY"} -> 1
      [] OTHER -> 2

\* C1: the status held in the store never regresses, and once the store
\* holds SUCCESS or FAILURE for a job no later write changes the record
\* (status, result, error, progress).  Reclaiming the record is no write.
C1_TerminalWriteOnce ==
    [][\A i \in TaskIds :
          backend'[i] # NoRecord =>
              /\ StatusRank(backend'[i].status) >= StatusRank(backend[i].status)
              /\ backend[i].status \in {"SUCCESS", "FAILURE"} => backend'[i] = backend[i]
      ]_vars

\* C2: over the whole lifetime of a job, retried attempts included, the
\* progress values published to the store never decrease, and no record
\* shows progress 100 unless its status is SUCCESS.
C2_ProgressNeverDecreases ==
    [][\A i \in TaskIds :
          /\ lastProgress'[i] >= lastProgress[i]
          /\ backend'[i].status # "SUCCESS" => backend'[i].meta.progress # 100
      ]_vars

PermanentErrors == {"invalid argument"}

\* C4: a job whose attempt raises a permanent error is not retried: no
\* retry is ever recorded or scheduled for such an error.
C4_PermanentNotRetried ==
    \A i \in TaskIds :
        backend[i].status = "RETRY" => backend[i].meta.msg \notin PermanentErrors

C6_UnknownIsNotFound ==
    (qpc = "done" /\ qbegin \in {"unknown", "expired"}) => resp.code = 404

\* what get_audit_status answers from one record, read once
Render(rec) ==
    [code     |-> 200,
     status   |-> rec.status,
     result   |-> IF rec.status = "SUCCESS" THEN rec.meta ELSE NullMeta,
     progress |-> IF rec.status = "PROGRESS" THEN rec.meta ELSE NullMeta,
     error    |-> IF rec.status = "FAILURE" THEN rec.meta.msg ELSE Null,
     message  |-> CASE rec.status = "PENDING"  -> "Task is waiting to be processed"
                    [] rec.status = "PROGRESS" -> "Task is being processed"
                    [] rec.status = "SUCCESS"  -> "Task completed successfully"
                    [] rec.status = "FAILURE"  -> "Task failed to complete"
                    [] OTHER -> rec.status]

\* a record some write (or no write at all) can have left in the store
Storable(rec) ==
    CASE rec.status = "PENDING"  -> rec.meta = NullMeta
      [] rec.status = "PROGRESS" -> rec.meta.kind = "envelope"
      [] rec.status = "SUCCESS"  -> rec.meta.kind = "result"
      [] OTHER -> rec.meta.kind = "exc"

\* C7: every response is the snapshot of one stored state: its status and
\* its progress / result / error all come from the same record.
C7_ConsistentSnapshot ==
    (qpc = "done" /\ resp.code = 200) =>
        \E m \in {NullMeta, resp.progress, resp.result, StoredException(resp.error)} :
            /\ Storable([status |-> resp.status, meta |-> m])
            /\ resp = Render([status |-> resp.status, meta |-> m])

(***************************************************************************)
(* Claims about the cache gateway (SpecCache).                             *)
(***************************************************************************)
\* C8: _set_cached_result never raises to its caller: with the client
\* absent, the store failing or the value unserialisable, it returns.
C8_SetNeverRaises ==
    cres.call = "set" => cres.out.kind = "returned"

\* C9: _get_cached_result never raises; it returns a value only when the
\* key is present, not expired and decodable in a store that answers, and
\* then the stored value; with the client absent, the store failing or the
\* payload undecodable it returns the miss (None).
C9_GetValueOrMiss ==
    cres.call = "get" =>
        /\ cres.out.kind = "returned"
        /\ cres.out.value # NoData =>
              /\ cres.ctx.client /\ cres.ctx.up /\ cres.ctx.live /\ cres.ctx.decodes
              /\ cres.out.value = cres.ctx.stored
        /\ (~cres.ctx.client \/ ~cres.ctx.up \/ ~cres.ctx.live \/ ~cres.ctx.decodes) =>
              cres.out = Returned(NoData)
        /\ (cres.ctx.client /\ cres.ctx.up /\ cres.ctx.live /\ cres.ctx.decodes) =>
              cres.out = Returned(cres.ctx.stored)

\* a read that met an undecodable payload in a store that answers
C9_Witness ==
    /\ cres.call = "get"
    /\ cres.ctx.client /\ cres.ctx.up /\ cres.ctx.live /\ ~cres.ctx.decodes
    /\ cres.out = Returned(NoData)

\* C10: with the store unreachable at each of its calls of the gateway, a
\* cached lookup returns the payload it computed and does not raise.
C10_LookupSurvivesOutage ==
    (cres.call = "lookup" /\ cpc = "done" /\ cres.down) =>
        cres.out = Returned(MockData(cres.op))

(***************************************************************************)
(* Claims about _generate_cache_key (SpecKey).                             *)
(***************************************************************************)
\* C11: _generate_cache_key is deterministic and order-independent: the key
\* a call returned is the key of the same prefix with the same keyword
\* arguments supplied in any other order, and of the same call repeated.
C11_KeyOrderIndependent ==
    kcall # NoKeyCall =>
        \A kwargs \in KwargsSeqs :
            SameKwargs(kwargs, kcall.kwargs) =>
                generate_cache_key(kcall.prefix, kwargs) = kret

\* a call whose arguments were not supplied in sorted order
C11_Witness ==
    /\ kcall # NoKeyCall
    /\ Len(kcall.kwargs) = 2
    /\ kcall.kwargs # sorted_items(kcall.kwargs)
    /\ kret = generate_cache_key(kcall.prefix, sorted_items(kcall.kwargs))

(***************************************************************************)
(* Claims about cached lookups and expiry (SpecCache).                     *)
(***************************************************************************)
\* the store answers and holds, unexpired, what the gateway last wrote under k
StillCached(k) ==
    /\ redis_client # None /\ storeUp
    /\ written[k].set
    /\ now < written[k].at + written[k].ttl

\* a step that is the check of a cached lookup whose key is k
LookupCheckStep(k) ==
    /\ cpc \in {"idle", "done"} /\ cpc' \in {"done", "fetch"}
    /\ cres'.call = "lookup" /\ cres'.key = k /\ ckey' = k
    /\ << cpc, ckey, cres >>' # << cpc, ckey, cres >>
    /\ UNCHANGED << redis_client, storeUp, now >>

\* C12: with the store available and no expiry or invalidation since the
\* first call stored its payload, a second call of the lookup with the same
\* parameters, in any argument order, returns that payload from the cache:
\* it computes nothing and writes nothing.
C12_SecondCallServedFromCache ==
    /\ [](\A c, d \in KeyedCalls : c.op = d.op => c.key = d.key)
    /\ [][(cpc = "fetch" /\ cpc' = "done" /\ written'[ckey] # written[ckey]) =>
              cres'.out = Returned(written'[ckey].value)]_vars
    /\ [][\A k \in CacheKeys : (LookupCheckStep(k) /\ StillCached(k)) =>
              /\ cpc' = "done"
              /\ cres'.out = Returned(written[k].value)
              /\ cres'.arg = NoData
              /\ cache' = cache /\ written' = written]_vars

\* a lookup of get_serp_data answered from the entry an earlier call wrote
C12_Witness ==
    /\ cpc = "done"
    /\ cres.call = "lookup" /\ cres.op = "serp"
    /\ cres.arg = NoData
    /\ cres.ctx.live
    /\ written[cres.key].set
    /\ cres.out = Returned(MockData("serp"))

\* a step that is a call _get_cached_result(k)
GetStep(k) ==
    /\ cres'.call = "get" /\ cres'.key = k /\ cpc' = "idle"
    /\ UNCHANGED << redis_client, storeUp, cache, written, now >>

\* C13: an entry written with ttl t at time w is returned by every get
\* before w + t and is a miss from w + t on (the store answering and no
\* other client having overwritten the key).
C13_TtlExpiry ==
    [][\A k \in CacheKeys :
          (GetStep(k) /\ redis_client # None /\ storeUp /\ written[k].set) =>
              IF now < written[k].at + written[k].ttl
              THEN cres'.out = Returned(written[k].value)
              ELSE cres'.out = Returned(NoData)
      ]_vars

\* an entry written at time 0 with ttl 1 is a miss at time 2
C13_Witness ==
    /\ cres.call = "get"
    /\ cres.ctx.client /\ cres.ctx.up /\ ~cres.ctx.live
    /\ now = 2
    /\ written[cres.key] = [set |-> TRUE, at |-> 0, ttl |-> 1,
                            value |-> MockData(OpOfKey(cres.key))]
    /\ cres.out = Returned(NoData)

(***************************************************************************)
(* Claims about submissions (SpecSubmit).                                  *)
(***************************************************************************)
\* a step that answers a submission
SubmitStep == spc = "idle" /\ spc' = "done"

\* the body has no root_url or one that is no URL
BadRootUrl(body) == "root_url" \notin DOMAIN body \/ body["root_url"] = MalformedUrl

\* C14: when run_site_crawl.delay raises, start_site_audit answers 500 with
\* detail "Failed to start site audit task" and no task id; no id is
\* allocated, no message is sent and no record is created.
C14_DelayFailureReported ==
    [][(SubmitStep /\ sreq'.delay = "raised") =>
          /\ sresp'.code = 500
          /\ sresp'.detail = "Failed to start site audit task"
          /\ sresp'.task_id = UnknownId
          /\ UNCHANGED << nextId, args, broker, backend, issued >>
      ]_vars

\* a failed submission while an earlier job has its record
C14_Witness ==
    /\ spc = "done"
    /\ sreq.delay = "raised"
    /\ sresp.code = 500
    /\ nextId = 1 /\ backend[1] # NoRecord
    /\ backend[2] = NoRecord

C16_AcceptedSchedulesOnce ==
    [][(SubmitStep /\ sreq'.token = "valid" /\ ~BadRootUrl(sreq'.body)
                   /\ sreq'.delay = "returned") =>
          LET body == sreq'.body
              id   == sresp'.task_id
          IN  /\ sresp'.code = 200
              /\ sresp'.status = "pending"
              /\ sresp'.root_url = body["root_url"]
              /\ id \in JobIds
              /\ \A m \in broker : m.id # id
              /\ broker' = broker \cup {[id |-> id, retries |-> 0]}
              /\ args' = [args EXCEPT ![id] =
                    [task |-> "run_site_crawl", project_id |-> 1,
                     root_url |-> body["root_url"],
                     max_depth |-> IF "max_depth" \in DOMAIN body
                                   THEN body["max_depth"] ELSE 3,
                     max_pages |-> IF "max_pages" \in DOMAIN body
                                   THEN body["max_pages"] ELSE 100]]
              /\ backend' = backend
      ]_vars

\* a submission with only root_url was scheduled with the defaults
C16_Witness ==
    /\ spc = "done"
    /\ sreq.delay = "returned"
    /\ DOMAIN sreq.body = {"root_url"}
    /\ sresp.code = 200 /\ sresp.status = "pending"
    /\ args[sresp.task_id].max_depth = 3
    /\ args[sresp.task_id].max_pages = 100
    /\ [id |-> sresp.task_id, retries |-> 0] \in broker

C18_FieldsFollowStatus ==
    (qpc = "done" /\ resp.code = 200) =>
        /\ (resp.progress # NullMeta) <=> (resp.status = "PROGRESS")
        /\ (resp.result # NullMeta) <=> (resp.status = "SUCCESS")
        /\ (resp.error # Null) <=> (resp.status = "FAILURE")
        /\ resp.status = "PROGRESS" => resp.progress.kind = "envelope"
        /\ resp.status = "SUCCESS" => resp.result.kind = "result"

\* the phases of run_site_crawl in the order of the body
PhaseOrder   == << "initialization", "discovery", "crawling", "analysis" >>
PhaseRank(p) == CHOOSE i \in 1 .. Len(PhaseOrder) : PhaseOrder[i] = p
CrawlJob(i)  == args[i].task = "run_site_crawl"

\* C19: an attempt of run_site_crawl that succeeds has published an envelope
\* for each phase in the order initialization, discovery, crawling,
\* analysis: an envelope replaces one of the same phase or of the phase
\* before, and the result replaces the analysis envelope.
C19_EnvelopeAtEachPhase ==
    [][\A i \in JobIds : CrawlJob(i) =>
          /\ (/\ backend'[i] # backend[i]
              /\ backend'[i].status = "PROGRESS"
              /\ backend'[i].meta.phase # "initialization") =>
                  /\ backend[i].status = "PROGRESS"
                  /\ PhaseRank(backend'[i].meta.phase) - PhaseRank(backend[i].meta.phase)
                         \in {0, 1}
          /\ (backend'[i].status = "SUCCESS" /\ backend[i].status # "SUCCESS") =>
                  /\ backend[i].status = "PROGRESS"
                  /\ backend[i].meta.phase = "analysis"
      ]_vars

\* a site crawl submitted with max_pages = 0
ZeroPages(i) == CrawlJob(i) /\ args[i].max_pages = 0

\* the steps of an attempt that no exception interrupts
BodySteps ==
    {<< "start", "discovery" >>, << "discovery", "crawling" >>,
     << "crawling", "return" >>, << "return", "idle" >>}

PublishStep(i) == backend'[i] # backend[i] /\ backend'[i].status = "PROGRESS"

\* how far the attempts of a site crawl got, read off the progress published
\* last: 1 initialization, 2 discovery, 3 crawling or analysis
RankReached(progress) == IF progress = 0 THEN 1 ELSE IF progress = 5 THEN 2 ELSE 3

\* C21: a retried attempt does not go back over the phases an earlier
\* attempt completed: the envelopes it publishes are of the phase the job
\* had reached or of a later one.
C21_RetryResumes ==
    [][\A i \in JobIds :
          (CrawlJob(i) /\ wreq.id = i /\ wreq.retries > 0 /\ PublishStep(i)) =>
              PhaseRank(backend'[i].meta.phase) >= RankReached(lastProgress[i])
      ]_vars

\* C25: in an attempt of run_site_crawl with max_pages >= 1 the progress
\* published is 0 at initialization, 5 at discovery, floor(70 * p / t) + 20
\* at p = 10, 20, ... crawled pages with t = min(max_pages, 50), within
\* 20..90, and 90 at analysis; it never decreases within the attempt.
C25_ProgressValues ==
    [][\A i \in JobIds :
          (CrawlJob(i) /\ args[i].max_pages >= 1 /\ PublishStep(i)) =>
              LET m == backend'[i].meta
                  t == IF args[i].max_pages <= 50 THEN args[i].max_pages ELSE 50
              IN  /\ m.progress \in 0 .. 90
                  /\ m.phase = "initialization" => m.progress = 0
                  /\ m.phase = "discovery" => m.progress = 5
                  /\ m.phase = "crawling" =>
                        /\ m.crawled % 10 = 0 /\ m.crawled \in 1 .. t
                        /\ m.progress = (70 * m.crawled) \div t + 20
                        /\ m.progress \in 20 .. 90
                  /\ m.phase = "analysis" => m.progress = 90
                  /\ m.phase # "initialization" =>
                        /\ backend[i].status = "PROGRESS"
                        /\ backend[i].meta.progress <= m.progress
      ]_vars

\* the envelope of the tenth of fifty pages is in the store
C25_Witness ==
    \E i \in TaskIds :
        /\ CrawlJob(i) /\ args[i].max_pages = 60
        /\ backend[i] = [status |-> "PROGRESS",
                         meta |-> Envelope("crawling", 34, 50, 10, {"total", "crawled"})]

\* C27: whatever integer max_pages is, an envelope with both counters has
\* 0 <= crawled <= total, and the result has total_pages_crawled =
\* total_pages_discovered = min(max_pages, 50) and total_pages_crawled <=
\* max_pages.
C27_CountersWithinBounds ==
    \A i \in JobIds : CrawlJob(i) =>
        LET m == backend[i].meta IN
        /\ (backend[i].status = "PROGRESS" /\ {"total", "crawled"} \subseteq m.keys) =>
              0 <= m.crawled /\ m.crawled <= m.total
        /\ backend[i].status = "SUCCESS" =>
              /\ m.crawled = m.total
              /\ m.total = IF args[i].max_pages <= 50 THEN args[i].max_pages ELSE 50
              /\ m.crawled <= args[i].max_pages

(***************************************************************************)
(* Claims about the text _generate_cache_key hashes (SpecKey).             *)
(***************************************************************************)
\* C26: for one prefix, keyword arguments that differ in a name or in a
\* value, values with ':' or '=' in them included, are serialised to
\* different texts, so their keys differ.
C26_NoKeyAliasing ==
    kcall # NoKeyCall =>
        \A kwargs \in KwargsSeqs :
            ~SameKwargs(kwargs, kcall.kwargs) =>
                /\ key_data(kcall.prefix, kwargs) # key_data(kcall.prefix, kcall.kwargs)
                /\ generate_cache_key(kcall.prefix, kwargs) # kret

\* a step that is the check of a cached lookup answered from the cache
LookupHitStep(k) ==
    /\ LookupCheckStep(k)
    /\ cpc' = "done" /\ cres'.out.kind = "returned" /\ cres'.out.value # NoData

\* C29: a cached lookup answered from the cache leaves the store as it was
\* (no write, the entry's expiry not extended), and the value it returns is
\* one the gateway wrote less than that entry's time to live earlier, a time
\* to live of at most 86400 seconds.
C29_HitLeavesStoreUnchanged ==
    [][\A k \in CacheKeys : LookupHitStep(k) =>
          /\ cache' = cache /\ written' = written
          /\ written[k].set
          /\ cres'.out.value = written[k].value
          /\ now - written[k].at < written[k].ttl
          /\ written[k].ttl <= DefaultTtl]_vars

\* a lookup answered from an entry written at an earlier time
C29_Witness ==
    /\ cpc = "done" /\ cres.call = "lookup"
    /\ cres.out.kind = "returned" /\ cres.out.value # NoData /\ cres.arg = NoData
    /\ written[cres.key].set /\ written[cres.key].at < now

\* the steps of clear_cache: its DEL request, and a return
ClearDeleteStep == clpc = "listed" /\ clpc' = "idle"
ClearReturnStep == cret' # cret /\ cret'.call = "clear"

\* C22: a clear_cache(pattern) whose DEL reaches the store, no entry having
\* been added since its KEYS, leaves no entry with a matching key, leaves
\* every other entry as it was and returns the number of entries it
\* removed; with nothing matching it returns 0 and changes nothing; with no
\* client or the store not answering it returns 0, raises nothing and
\* changes nothing.
C22_ClearCache ==
    [][/\ (ClearDeleteStep /\ storeUp /\ Keys(cpat) \subseteq ckeys) =>
            /\ \A k \in CacheKeys : Matches(cpat, k) => cache'[k].payload.fmt = "none"
            /\ \A k \in CacheKeys : ~Matches(cpat, k) => cache'[k] = cache[k]
            /\ cret'.kind = "returned"
            /\ cret'.count = Cardinality({k \in CacheKeys : Live(k) /\ cache'[k] = NoEntry})
       /\ (clpc = "idle" /\ ClearReturnStep /\ cret'.client /\ cret'.up) =>
            /\ Keys(cret'.pattern) = {}
            /\ cret'.kind = "returned" /\ cret'.count = 0
            /\ cache' = cache
       /\ (\/ ClearDeleteStep /\ ~storeUp
           \/ clpc = "idle" /\ ClearReturnStep /\ (~cret'.client \/ ~cret'.up)) =>
            /\ cret'.kind = "returned" /\ cret'.count = 0
            /\ cache' = cache]_vars

\* clear_cache("serp:*") has removed the entry of get_serp_data and another
\* lookup's entry is still there
C22_Witness ==
    /\ clpc = "idle" /\ cret.call = "clear" /\ cret.pattern = "serp:*" /\ cret.count = 1
    /\ \A k \in CacheKeys : Matches("serp:*", k) => cache[k] = NoEntry
    /\ \E k \in CacheKeys : ~Matches("serp:*", k) /\ Live(k)

\* C30: whatever other workers write and whatever expires between the KEYS
\* and the DEL of a clear_cache, a DEL that reaches the store returns at
\* most the number of keys listed, and no key that was listed has an entry
\* when clear_cache returns (one rewritten in between included).
C30_ClearCacheBesideWriters ==
    [][(ClearDeleteStep /\ storeUp) =>
          /\ cret'.kind = "returned"
          /\ cret'.count <= Cardinality(ckeys)
          /\ \A k \in ckeys : cache'[k] = NoEntry]_vars

\* a clear_cache returned less than it listed (an entry expired in between)
\* and an entry written in between, which it had not listed, is still there
C30_Witness ==
    /\ clpc = "idle" /\ cret.call = "clear" /\ cret.pattern = "*"
    /\ cret.count < cret.listed
    /\ \E k \in CacheKeys : Live(k)

\* C28: no operation changes redis_client; and while it is None, as it is
\* when the store could not be reached at import, is_service_available()
\* is false, _get_cached_result returns None, _set_cached_result writes
\* nothing and returns, clear_cache returns 0 and the store has no entry
\* of this process, whether or not the store answers by then.
C28_AvailabilityFixedAtImport ==
    /\ [][redis_client' = redis_client]_vars
    /\ [](redis_client = None =>
            /\ cret.call = "available" => ~cret.avail
            /\ cret.call = "clear" => cret.kind = "returned" /\ cret.count = 0
            /\ cres.call = "get" => cres.out = Returned(NoData)
            /\ cres.call = "set" => cres.out = Returned(NoData)
            /\ \A k \in CacheKeys : cache[k] = NoEntry)

\* the store answers again, and the process that was imported without it
\* has been asked for availability and has been given a result to store
C28_Witness ==
    /\ redis_client = None /\ storeUp
    /\ cret.call = "available" /\ cret.up /\ ~cret.avail
    /\ cres.call = "set" /\ cres.ctx.up /\ cres.arg # MockData(Unserializable)

\* C23: when two workers have run the same cached lookup with the same key,
\* in any interleaving of their requests, and each of them reached the
\* store, both return the same payload, the lookup's, and the store holds
\* under that key the entry with that payload.
C23_RaceSamePayload ==
    \A v, w \in Workers :
        (/\ v # w /\ lpc[v] = "done" /\ lpc[w] = "done" /\ lkey[v] = lkey[w]
         /\ ~lout[v].down /\ ~lout[w].down) =>
            /\ lout[v].out = lout[w].out
            /\ lout[v].out = Returned(MockData(OpOfKey(lkey[v])))
            /\ Live(lkey[v])
            /\ cache[lkey[v]].payload = JsonDumps(MockData(OpOfKey(lkey[v])))

\* both workers missed, so both computed and both stored
C23_Witness ==
    /\ lpc[1] = "done" /\ lpc[2] = "done" /\ lkey[1] = lkey[2]
    /\ ~lout[1].down /\ ~lout[2].down
    /\ ~lout[1].hit /\ ~lout[2].hit
    /\ lout[1].out.kind = "returned" /\ lout[2].out.kind = "returned"

\* a generation that raised, or gave no text
GenerationFailed(gen) ==
    gen.kind \in {"raises", "text raises", "no response"} \/ (gen.kind = "text" /\ gen.text = "")

\* C24: with a prompt that is not blank and the client initialised,
\* invoke_gemini_model returns and raises nothing, and it returns "" when
\* generating raised (an API error or any other Exception) or the response
\* had no text.
C24_FailuresBecomeEmptyString ==
    (aicall.prompt \notin BlankPrompts /\ vertex_model # None) =>
        /\ aicall.out.kind = "returned"
        /\ GenerationFailed(aicall.gen) => aicall.out.value = ""

\* a response whose .text raised ValueError was turned into ""
C24_Witness ==
    /\ aicall.prompt \notin BlankPrompts /\ vertex_model # None
    /\ aicall.gen.kind = "text raises" /\ aicall.out = AiReturned("")

====
